---- MODULE Spec2Model ----
(***************************************************************************)
(* The three monitor starters of src/monitoring/monitors/monitor_starters  *)
(* (start_node_monitor, start_network_monitor, start_github_monitor) as    *)
(* sequential loops; a process runs one of them.                           *)
(*                                                                         *)
(* The monitors, the channel set, the node objects and the logger are      *)
(* external collaborators.  A call into one of them is modelled by the     *)
(* event it leaves in ev[l], the sequence of calls made by loop l in its   *)
(* most recent iteration.  monitor() and save_state() may raise; the       *)
(* channel calls, set_as_down, the logger and is_syncing are taken to      *)
(* return.  logger.debug lines are not recorded.                           *)
(***************************************************************************)
EXTENDS Integers, Sequences, FiniteSets, TLC

\* ---------------------------------------------------------------- bounds
\* Horizon of the wall clock, in seconds.
MaxTime == 6
\* The monitor_period argument of the three starters, in seconds.
monitor_period == 1
\* internal_config.github_error_interval_seconds, in seconds.
github_error_interval_seconds == 3

\* ------------------------------------------------------------- constants
Loops == {"node", "network", "github"}

\* The exception classes the starters name, and "Exception" for any other.
ExceptionKinds ==
    {"ReqConnectionError", "ReadTimeout", "IncompleteRead",
     "ChunkedEncodingError", "ProtocolError", "JSONDecodeError",
     "NoLiveFullNodeException", "Exception"}

\* What a call that may raise does: returns ("ok") or raises one kind.
Outcomes == {"ok"} \cup ExceptionKinds

VARIABLES
    pc,          \* pc[l]: where loop l stands ("idle": starter not called)
    res,         \* res[l]: what monitor(), save_state() and node.save_state()
                 \*   did in l's latest iteration ("none": not called)
    ev,          \* ev[l]: the calls of l's latest iteration, in order
    now,         \* wall clock
    sleep_left,  \* sleep_left[l]: seconds left of l's time.sleep
    github_error_alert_limiter,  \* the TimedTaskLimiter of the GitHub loop
    at,          \* history: at[l] is when l's latest iteration ran its try
    prev,        \* history: res, ev and at of the iteration before the latest
    page_alerts, \* history: the times of the CannotAccessGitHubPageAlert
                 \*   alerts sent, and how many since the last fully
                 \*   successful GitHub iteration
    traced       \* whether the histories at, prev and page_alerts are kept

vars == <<pc, res, ev, now, sleep_left, github_error_alert_limiter,
          at, prev, page_alerts, traced>>

NoResult == [monitor |-> "none", save_state |-> "none",
             node_save_state |-> "none"]

\* ---------------------------------------------------------------- traces
Count(s, x) == Cardinality({i \in 1..Len(s) : s[i] = x})

Has(s, x) == \E i \in 1..Len(s) : s[i] = x

IsPrefix(s, t) == Len(s) <= Len(t) /\ \A i \in 1..Len(s) : s[i] = t[i]

\* x occurs in s and every y in s comes after the first x.
Precedes(s, x, y) ==
    /\ Has(s, x)
    /\ \A i \in 1..Len(s) : s[i] = y => \E j \in 1..(i - 1) : s[j] = x

\* ------------------------------------------------------ TimedTaskLimiter
\* src/utils/timing.py is not part of the sources at hand; the limiter is
\* modelled from its documented contract.
LimiterInit == [fired |-> FALSE, at |-> 0]

\* Mutant: the limiter forgets that it may never have fired.
can_do_task_NoNeverFired(lim, t) ==
    t - lim.at >= github_error_interval_seconds

can_do_task(lim, t) ==
    \/ ~lim.fired
    \/ t - lim.at >= github_error_interval_seconds

did_task(lim, t) == [fired |-> TRUE, at |-> t]

reset(lim) == [fired |-> FALSE, at |-> 0]

\* ---------------------------------------------------------------- Init
\* The state when the loop l0 is entered; the GitHub starter has built its
\* limiter.  The other loops are not running.
InitLoop(l0) ==
    /\ pc = [l \in Loops |-> IF l = l0 THEN "try" ELSE "idle"]
    /\ res = [l \in Loops |-> NoResult]
    /\ ev = [l \in Loops |-> <<>>]
    /\ now = 0
    /\ sleep_left = [l \in Loops |-> 0]
    /\ github_error_alert_limiter = LimiterInit
    /\ at = [l \in Loops |-> 0]
    /\ prev = [l \in Loops |-> [res |-> NoResult, ev |-> <<>>, at |-> 0]]
    /\ page_alerts = [since_ok |-> 0, times |-> <<>>]

\* A process runs one of the three starters.
Init == (\E l0 \in Loops : InitLoop(l0)) /\ traced = TRUE

\* Two of the starters run side by side, each in its own unit of execution
\* (the third would add nothing the two do not show); no history is kept.
InitConcurrent ==
    /\ \E l0 \in Loops : pc = [l \in Loops |-> IF l = l0 THEN "idle" ELSE "try"]
    /\ res = [l \in Loops |-> NoResult]
    /\ ev = [l \in Loops |-> <<>>]
    /\ now = 0
    /\ sleep_left = [l \in Loops |-> 0]
    /\ github_error_alert_limiter = LimiterInit
    /\ at = [l \in Loops |-> 0]
    /\ prev = [l \in Loops |-> [res |-> NoResult, ev |-> <<>>, at |-> 0]]
    /\ page_alerts = [since_ok |-> 0, times |-> <<>>]
    /\ traced = FALSE

\* A process runs one of the three starters for ever; no history is kept.
InitLive == (\E l0 \in Loops : InitLoop(l0)) /\ traced = FALSE

\* The head of an iteration of loop l: the history variables move on.
BeginIteration(l) ==
    IF traced
    THEN /\ at' = [at EXCEPT ![l] = now]
         /\ prev' = [prev EXCEPT ![l] =
                       [res |-> res[l], ev |-> ev[l], at |-> at[l]]]
    ELSE UNCHANGED <<at, prev>>

\* ------------------------------------------- the fault kinds, by class
\* ConnectionFailure and ReadTimeout.
ConnFaults == {"ReqConnectionError", "ReadTimeout"}

\* PartialRead and ProtocolError (with its chunked-encoding variant).
TransientFaults == {"IncompleteRead", "ChunkedEncodingError", "ProtocolError"}

\* The classes the except clauses of loop l name.
Caught(l) ==
    IF l = "node" THEN ConnFaults \cup TransientFaults
    ELSE IF l = "network"
    THEN {"NoLiveFullNodeException"} \cup ConnFaults \cup TransientFaults
    ELSE ConnFaults \cup {"JSONDecodeError"}

\* ------------------------------------------------------ start_node_monitor
\* Mutant: the ReadTimeout clause logs instead of marking the node down.
NodeExcept_TimeoutLogged(e) ==
    IF e = "ReqConnectionError"
    THEN [events |-> <<"set_as_down">>, next |-> "save"]
    ELSE IF e \in {"ReadTimeout", "IncompleteRead", "ChunkedEncodingError",
                   "ProtocolError"}
    THEN [events |-> <<"log_error">>, next |-> "save"]
    ELSE [events |-> <<"log_exception", "raise">>, next |-> "raised"]

\* Mutant: the clause for the read errors is missing.
NodeExcept_NoReadErrorClause(e) ==
    IF e \in {"ReqConnectionError", "ReadTimeout"}
    THEN [events |-> <<"set_as_down">>, next |-> "save"]
    ELSE [events |-> <<"log_exception", "raise">>, next |-> "raised"]

\* The except clauses of the node loop: the calls made for exception e and
\* whether the loop goes on ("save") or re-raises ("raised").
NodeExcept(e) ==
    IF e \in {"ReqConnectionError", "ReadTimeout"}
    THEN [events |-> <<"set_as_down">>, next |-> "save"]
    ELSE IF e \in {"IncompleteRead", "ChunkedEncodingError", "ProtocolError"}
    THEN [events |-> <<"log_error">>, next |-> "save"]
    ELSE [events |-> <<"log_exception", "raise">>, next |-> "raised"]

\* try: node_monitor.monitor() except ...
NodeTry ==
    /\ pc["node"] = "try"
    /\ \E r \in Outcomes :
         LET h == IF r = "ok" THEN [events |-> <<>>, next |-> "save"]
                  ELSE NodeExcept(r)
         IN /\ ev' = [ev EXCEPT !["node"] = <<"monitor">> \o h.events]
            /\ res' = [res EXCEPT !["node"] = [NoResult EXCEPT !.monitor = r]]
            /\ pc' = [pc EXCEPT !["node"] = h.next]
    /\ BeginIteration("node")
    /\ UNCHANGED <<now, sleep_left, github_error_alert_limiter, page_alerts, traced>>

\* Mutant: the node loop does not save the monitor's state.
NodeSaveState_Skipped ==
    /\ pc["node"] = "save"
    /\ pc' = [pc EXCEPT !["node"] = "save_node"]
    /\ UNCHANGED <<res, ev, now, sleep_left, github_error_alert_limiter, at,
                   prev, page_alerts, traced>>

\* node_monitor.save_state(), outside the try: whatever it raises escapes.
NodeSaveState ==
    /\ pc["node"] = "save"
    /\ \E r \in Outcomes :
         /\ res' = [res EXCEPT !["node"].save_state = r]
         /\ IF r = "ok"
            THEN /\ ev' = [ev EXCEPT !["node"] = Append(@, "save_state")]
                 /\ pc' = [pc EXCEPT !["node"] = "save_node"]
            ELSE /\ ev' = [ev EXCEPT !["node"] = @ \o <<"save_state", "raise">>]
                 /\ pc' = [pc EXCEPT !["node"] = "raised"]
    /\ UNCHANGED <<now, sleep_left, github_error_alert_limiter, at, prev,
                   page_alerts, traced>>

\* Mutant: the node loop does not save the node's state.
NodeSaveNodeState_Skipped ==
    /\ pc["node"] = "save_node"
    /\ pc' = [pc EXCEPT !["node"] = "sleep"]
    /\ UNCHANGED <<res, ev, now, sleep_left, github_error_alert_limiter, at,
                   prev, page_alerts, traced>>

\* node_monitor.node.save_state(logger), outside the try.
NodeSaveNodeState ==
    /\ pc["node"] = "save_node"
    /\ \E r \in Outcomes :
         /\ res' = [res EXCEPT !["node"].node_save_state = r]
         /\ IF r = "ok"
            THEN /\ ev' = [ev EXCEPT !["node"] = Append(@, "node_save_state")]
                 /\ pc' = [pc EXCEPT !["node"] = "sleep"]
            ELSE /\ ev' = [ev EXCEPT !["node"] =
                                 @ \o <<"node_save_state", "raise">>]
                 /\ pc' = [pc EXCEPT !["node"] = "raised"]
    /\ UNCHANGED <<now, sleep_left, github_error_alert_limiter, at, prev,
                   page_alerts, traced>>

\* time.sleep(monitor_period)
NodeSleep ==
    /\ pc["node"] = "sleep"
    /\ ev' = [ev EXCEPT !["node"] = Append(@, "sleep")]
    /\ sleep_left' = [sleep_left EXCEPT !["node"] = monitor_period]
    /\ pc' = [pc EXCEPT !["node"] = "sleeping"]
    /\ UNCHANGED <<res, now, github_error_alert_limiter, at, prev, page_alerts, traced>>

\* --------------------------------------------------- start_network_monitor
\* Mutant: the last clause logs the exception and does not re-raise it.
NetworkExcept_Swallowed(e) ==
    IF e = "NoLiveFullNodeException"
    THEN [events |-> <<"alert_major">>, next |-> "save"]
    ELSE IF e \in {"ReqConnectionError", "ReadTimeout"}
    THEN [events |-> <<"set_as_down">>, next |-> "save"]
    ELSE IF e \in {"IncompleteRead", "ChunkedEncodingError", "ProtocolError"}
    THEN [events |-> <<"alert_error", "log_error">>, next |-> "save"]
    ELSE [events |-> <<"log_exception">>, next |-> "save"]

\* Mutant: no live full node is handled like an unreachable one.
NetworkExcept_NoLiveMarksDown(e) ==
    IF e \in {"NoLiveFullNodeException", "ReqConnectionError", "ReadTimeout"}
    THEN [events |-> <<"set_as_down">>, next |-> "save"]
    ELSE IF e \in {"IncompleteRead", "ChunkedEncodingError", "ProtocolError"}
    THEN [events |-> <<"alert_error", "log_error">>, next |-> "save"]
    ELSE [events |-> <<"log_exception", "raise">>, next |-> "raised"]

\* Mutant: a read error marks the last full node used down as well.
NetworkExcept_ReadErrorMarksDown(e) ==
    IF e = "NoLiveFullNodeException"
    THEN [events |-> <<"alert_major">>, next |-> "save"]
    ELSE IF e \in {"ReqConnectionError", "ReadTimeout"}
    THEN [events |-> <<"set_as_down">>, next |-> "save"]
    ELSE IF e \in {"IncompleteRead", "ChunkedEncodingError", "ProtocolError"}
    THEN [events |-> <<"set_as_down", "alert_error", "log_error">>,
          next |-> "save"]
    ELSE [events |-> <<"log_exception", "raise">>, next |-> "raised"]

\* Mutant: a read error is only logged, as in the node loop.
NetworkExcept_ReadErrorLogged(e) ==
    IF e = "NoLiveFullNodeException"
    THEN [events |-> <<"alert_major">>, next |-> "save"]
    ELSE IF e \in {"ReqConnectionError", "ReadTimeout"}
    THEN [events |-> <<"set_as_down">>, next |-> "save"]
    ELSE IF e \in {"IncompleteRead", "ChunkedEncodingError", "ProtocolError"}
    THEN [events |-> <<"log_error">>, next |-> "save"]
    ELSE [events |-> <<"log_exception", "raise">>, next |-> "raised"]

\* The except clauses of the network loop.
NetworkExcept(e) ==
    IF e = "NoLiveFullNodeException"
    THEN [events |-> <<"alert_major">>, next |-> "save"]
    ELSE IF e \in {"ReqConnectionError", "ReadTimeout"}
    THEN [events |-> <<"set_as_down">>, next |-> "save"]
    ELSE IF e \in {"IncompleteRead", "ChunkedEncodingError", "ProtocolError"}
    THEN [events |-> <<"alert_error", "log_error">>, next |-> "save"]
    ELSE [events |-> <<"log_exception", "raise">>, next |-> "raised"]

\* Mutant: the poll of the network loop waits while another loop sleeps.
NetworkTry_WaitsForSleepers ==
    /\ pc["network"] = "try"
    /\ \A m \in Loops : ~(pc[m] = "sleeping" /\ sleep_left[m] > 0)
    /\ \E r \in Outcomes :
         LET h == IF r = "ok" THEN [events |-> <<>>, next |-> "save"]
                  ELSE NetworkExcept(r)
         IN /\ ev' = [ev EXCEPT !["network"] = <<"monitor">> \o h.events]
            /\ res' = [res EXCEPT !["network"] = [NoResult EXCEPT !.monitor = r]]
            /\ pc' = [pc EXCEPT !["network"] = h.next]
    /\ BeginIteration("network")
    /\ UNCHANGED <<now, sleep_left, github_error_alert_limiter, page_alerts, traced>>

NetworkTry ==
    /\ pc["network"] = "try"
    /\ \E r \in Outcomes :
         LET h == IF r = "ok" THEN [events |-> <<>>, next |-> "save"]
                  ELSE NetworkExcept(r)
         IN /\ ev' = [ev EXCEPT !["network"] = <<"monitor">> \o h.events]
            /\ res' = [res EXCEPT !["network"] = [NoResult EXCEPT !.monitor = r]]
            /\ pc' = [pc EXCEPT !["network"] = h.next]
    /\ BeginIteration("network")
    /\ UNCHANGED <<now, sleep_left, github_error_alert_limiter, page_alerts, traced>>

\* Mutant: save_state() is called inside a try that swallows what it raises.
NetworkSaveState_Guarded ==
    /\ pc["network"] = "save"
    /\ \E r \in Outcomes :
         /\ res' = [res EXCEPT !["network"].save_state = r]
         /\ ev' = [ev EXCEPT !["network"] = Append(@, "save_state")]
         /\ pc' = [pc EXCEPT !["network"] = "sleep"]
    /\ UNCHANGED <<now, sleep_left, github_error_alert_limiter, at, prev,
                   page_alerts, traced>>

\* network_monitor.save_state(), outside the try.
NetworkSaveState ==
    /\ pc["network"] = "save"
    /\ \E r \in Outcomes :
         /\ res' = [res EXCEPT !["network"].save_state = r]
         /\ IF r = "ok"
            THEN /\ ev' = [ev EXCEPT !["network"] = Append(@, "save_state")]
                 /\ pc' = [pc EXCEPT !["network"] = "sleep"]
            ELSE /\ ev' = [ev EXCEPT !["network"] =
                                 @ \o <<"save_state", "raise">>]
                 /\ pc' = [pc EXCEPT !["network"] = "raised"]
    /\ UNCHANGED <<now, sleep_left, github_error_alert_limiter, at, prev,
                   page_alerts, traced>>

\* Mutant: the test of is_syncing() is inverted.
NetworkSleepDecision_Inverted(syncing) ==
    IF syncing
    THEN [events |-> <<"is_syncing_true", "sleep">>, next |-> "sleeping",
          left |-> monitor_period]
    ELSE [events |-> <<"is_syncing_false">>, next |-> "try", left |-> 0]

\* Mutant: the sleep is left out.
NetworkSleepDecision_NeverSleeps(syncing) ==
    IF ~syncing
    THEN [events |-> <<"is_syncing_false">>, next |-> "try", left |-> 0]
    ELSE [events |-> <<"is_syncing_true">>, next |-> "try", left |-> 0]

\* if not network_monitor.is_syncing(): time.sleep(monitor_period)
NetworkSleepDecision(syncing) ==
    IF ~syncing
    THEN [events |-> <<"is_syncing_false", "sleep">>, next |-> "sleeping",
          left |-> monitor_period]
    ELSE [events |-> <<"is_syncing_true">>, next |-> "try", left |-> 0]

NetworkSleep ==
    /\ pc["network"] = "sleep"
    /\ \E syncing \in BOOLEAN :
         LET d == NetworkSleepDecision(syncing)
         IN /\ ev' = [ev EXCEPT !["network"] = @ \o d.events]
            /\ sleep_left' = [sleep_left EXCEPT !["network"] = d.left]
            /\ pc' = [pc EXCEPT !["network"] = d.next]
    /\ UNCHANGED <<res, now, github_error_alert_limiter, at, prev, page_alerts, traced>>

\* ---------------------------------------------------- start_github_monitor
\* Mutant: the alert is sent and did_task() is not called.
GithubExcept_NoDidTask(e, lim, t) ==
    IF e \in {"ReqConnectionError", "ReadTimeout"}
    THEN IF can_do_task(lim, t)
         THEN [events |-> <<"alert_error", "log_error">>,
               limiter |-> lim, next |-> "sleep"]
         ELSE [events |-> <<"log_error">>, limiter |-> lim, next |-> "sleep"]
    ELSE IF e = "JSONDecodeError"
    THEN [events |-> <<"log_error">>, limiter |-> lim, next |-> "sleep"]
    ELSE [events |-> <<"log_exception", "raise">>, limiter |-> lim,
          next |-> "raised"]

\* Mutant: a JSON decode error is handled by the clause of the connection
\* errors.
GithubExcept_JsonAlerts(e, lim, t) ==
    IF e \in {"ReqConnectionError", "ReadTimeout", "JSONDecodeError"}
    THEN IF can_do_task(lim, t)
         THEN [events |-> <<"alert_error", "did_task", "log_error">>,
               limiter |-> did_task(lim, t), next |-> "sleep"]
         ELSE [events |-> <<"log_error">>, limiter |-> lim, next |-> "sleep"]
    ELSE [events |-> <<"log_exception", "raise">>, limiter |-> lim,
          next |-> "raised"]

\* Mutant: the error is logged only when the alert is sent.
GithubExcept_SuppressedSilent(e, lim, t) ==
    IF e \in {"ReqConnectionError", "ReadTimeout"}
    THEN IF can_do_task(lim, t)
         THEN [events |-> <<"alert_error", "did_task", "log_error">>,
               limiter |-> did_task(lim, t), next |-> "sleep"]
         ELSE [events |-> <<>>, limiter |-> lim, next |-> "sleep"]
    ELSE IF e = "JSONDecodeError"
    THEN [events |-> <<"log_error">>, limiter |-> lim, next |-> "sleep"]
    ELSE [events |-> <<"log_exception", "raise">>, limiter |-> lim,
          next |-> "raised"]

\* Mutant: a JSON decode error resets the limiter.
GithubExcept_JsonResets(e, lim, t) ==
    IF e \in {"ReqConnectionError", "ReadTimeout"}
    THEN IF can_do_task(lim, t)
         THEN [events |-> <<"alert_error", "did_task", "log_error">>,
               limiter |-> did_task(lim, t), next |-> "sleep"]
         ELSE [events |-> <<"log_error">>, limiter |-> lim, next |-> "sleep"]
    ELSE IF e = "JSONDecodeError"
    THEN [events |-> <<"log_error">>, limiter |-> reset(lim), next |-> "sleep"]
    ELSE [events |-> <<"log_exception", "raise">>, limiter |-> lim,
          next |-> "raised"]

\* The except clauses of the GitHub loop for exception e, with the limiter
\* lim at time t: the calls made, the limiter afterwards, where to go next.
GithubExcept(e, lim, t) ==
    IF e \in {"ReqConnectionError", "ReadTimeout"}
    THEN IF can_do_task(lim, t)
         THEN [events |-> <<"alert_error", "did_task", "log_error">>,
               limiter |-> did_task(lim, t), next |-> "sleep"]
         ELSE [events |-> <<"log_error">>, limiter |-> lim, next |-> "sleep"]
    ELSE IF e = "JSONDecodeError"
    THEN [events |-> <<"log_error">>, limiter |-> lim, next |-> "sleep"]
    ELSE [events |-> <<"log_exception", "raise">>, limiter |-> lim,
          next |-> "raised"]

\* Mutant: the limiter is not reset after a successful iteration.
GithubTryBody_NoReset(m, s, lim) ==
    IF m # "ok"
    THEN [events |-> <<"monitor">>, raised |-> m, limiter |-> lim,
          res |-> [NoResult EXCEPT !.monitor = m]]
    ELSE IF s # "ok"
    THEN [events |-> <<"monitor", "save_state">>, raised |-> s,
          limiter |-> lim,
          res |-> [NoResult EXCEPT !.monitor = m, !.save_state = s]]
    ELSE [events |-> <<"monitor", "save_state">>, raised |-> "none",
          limiter |-> lim,
          res |-> [NoResult EXCEPT !.monitor = m, !.save_state = s]]

\* The body of the try: monitor(), then save_state(), then the reset.  m is
\* what monitor() does and s what save_state() does when it is reached.
GithubTryBody(m, s, lim) ==
    IF m # "ok"
    THEN [events |-> <<"monitor">>, raised |-> m, limiter |-> lim,
          res |-> [NoResult EXCEPT !.monitor = m]]
    ELSE IF s # "ok"
    THEN [events |-> <<"monitor", "save_state">>, raised |-> s,
          limiter |-> lim,
          res |-> [NoResult EXCEPT !.monitor = m, !.save_state = s]]
    ELSE [events |-> <<"monitor", "save_state", "reset">>, raised |-> "none",
          limiter |-> reset(lim),
          res |-> [NoResult EXCEPT !.monitor = m, !.save_state = s]]

GithubTry ==
    /\ pc["github"] = "try"
    /\ \E m \in Outcomes :
       \E s \in IF m = "ok" THEN Outcomes ELSE {"ok"} :
         LET b == GithubTryBody(m, s, github_error_alert_limiter)
             h == IF b.raised = "none"
                  THEN [events |-> <<>>, limiter |-> b.limiter, next |-> "sleep"]
                  ELSE GithubExcept(b.raised, b.limiter, now)
             all == b.events \o h.events
         IN /\ ev' = [ev EXCEPT !["github"] = all]
            /\ res' = [res EXCEPT !["github"] = b.res]
            /\ github_error_alert_limiter' = h.limiter
            /\ pc' = [pc EXCEPT !["github"] = h.next]
            /\ page_alerts' =
                 IF ~traced THEN page_alerts
                 ELSE IF Has(all, "alert_error")
                 THEN [since_ok |-> page_alerts.since_ok + 1,
                       times |-> Append(page_alerts.times, now)]
                 ELSE IF b.raised = "none"
                 THEN [page_alerts EXCEPT !.since_ok = 0]
                 ELSE page_alerts
    /\ BeginIteration("github")
    /\ UNCHANGED <<now, sleep_left, traced>>

\* time.sleep(monitor_period)
GithubSleep ==
    /\ pc["github"] = "sleep"
    /\ ev' = [ev EXCEPT !["github"] = Append(@, "sleep")]
    /\ sleep_left' = [sleep_left EXCEPT !["github"] = monitor_period]
    /\ pc' = [pc EXCEPT !["github"] = "sleeping"]
    /\ UNCHANGED <<res, now, github_error_alert_limiter, at, prev, page_alerts, traced>>

\* ------------------------------------------------------------ time.sleep
\* Mutant: a time.sleep that is still running at the horizon of the clock
\* does not return.
Wake_BeforeHorizon(l) ==
    /\ pc[l] = "sleeping"
    /\ sleep_left[l] = 0
    /\ now < MaxTime
    /\ pc' = [pc EXCEPT ![l] = "try"]
    /\ UNCHANGED <<res, ev, now, sleep_left, github_error_alert_limiter,
                   at, prev, page_alerts, traced>>

\* time.sleep returns once the seconds asked for have gone by; the loop is
\* back at the top of its while True.
Wake(l) ==
    /\ pc[l] = "sleeping"
    /\ sleep_left[l] = 0
    /\ pc' = [pc EXCEPT ![l] = "try"]
    /\ UNCHANGED <<res, ev, now, sleep_left, github_error_alert_limiter,
                   at, prev, page_alerts, traced>>

\* One second goes by, for every loop alike.
Tick ==
    /\ now < MaxTime
    /\ now' = now + 1
    /\ sleep_left' = [l \in Loops |->
                        IF sleep_left[l] > 0 THEN sleep_left[l] - 1 ELSE 0]
    /\ UNCHANGED <<pc, res, ev, github_error_alert_limiter, at, prev,
                   page_alerts, traced>>

Next ==
    \/ NodeTry
    \/ NodeSaveState
    \/ NodeSaveNodeState
    \/ NodeSleep
    \/ NetworkTry
    \/ NetworkSaveState
    \/ NetworkSleep
    \/ GithubTry
    \/ GithubSleep
    \/ \E l \in Loops : Wake(l)
    \/ Tick

Spec == Init /\ [][Next]_vars

\* ---------------------------------------------- the loops side by side
SpecConcurrent == InitConcurrent /\ [][Next]_vars

\* ------------------------------------------------- the loops for ever
\* The clock of the model stops at MaxTime; the seconds of a time.sleep
\* still go by.
TickPastHorizon ==
    /\ now = MaxTime
    /\ sleep_left' = [l \in Loops |->
                        IF sleep_left[l] > 0 THEN sleep_left[l] - 1 ELSE 0]
    /\ UNCHANGED <<pc, res, ev, now, github_error_alert_limiter, at, prev,
                   page_alerts, traced>>

\* The steps of loop l: its try statement, its save_state calls, its call
\* of time.sleep.
StepOf(l) ==
    IF l = "node"
    THEN NodeTry \/ NodeSaveState \/ NodeSaveNodeState \/ NodeSleep
    ELSE IF l = "network"
    THEN NetworkTry \/ NetworkSaveState \/ NetworkSleep
    ELSE GithubTry \/ GithubSleep

NextLive ==
    \/ Next
    \/ TickPastHorizon

\* The starter runs in a unit of execution that the scheduler does not
\* starve, a time.sleep returns when its seconds are over, and time goes
\* by.
Fairness ==
    /\ \A l \in Loops : WF_vars(StepOf(l)) /\ WF_vars(Wake(l))
    /\ WF_vars(Tick)
    /\ WF_vars(TickPastHorizon)

SpecLive == InitLive /\ [][NextLive]_vars /\ Fairness

\* ================================================================ claims
\* The latest iteration of loop l has run to its end: the loop is in its
\* sleep, or back at the top after it (or after skipping it).
IterationDone(l) ==
    \/ pc[l] = "sleeping"
    \/ pc[l] = "try" /\ ev[l] # <<>>

\* No call that persists state raised in the latest iteration of loop l.
NoPersistFault(l) ==
    /\ res[l].save_state \in {"none", "ok"}
    /\ res[l].node_save_state \in {"none", "ok"}

\* s without the "raise" that may end it.
Body(s) ==
    IF Len(s) > 0 /\ s[Len(s)] = "raise" THEN SubSeq(s, 1, Len(s) - 1) ELSE s

\* The latest GitHub iteration met a connection error or a read timeout and
\* sent no alert for it.
Suppressed(r, e) ==
    /\ \/ r.monitor \in ConnFaults
       \/ r.monitor = "ok" /\ r.save_state \in ConnFaults
    /\ ~Has(e, "alert_error")

\* ------------------------------------------------------------------- C1
\* C1: in the GitHub loop, two "cannot access page" alerts with no fully
\* successful iteration between them are at least
\* github_error_interval_seconds apart, and an iteration sends at most one.
C1_AlertsSpaced ==
    /\ Count(ev["github"], "alert_error") <= 1
    /\ page_alerts.since_ok >= 2 =>
         LET n == Len(page_alerts.times)
         IN page_alerts.times[n] - page_alerts.times[n - 1]
              >= github_error_interval_seconds

\* An alert, then a failure inside the window that sent none, then a second
\* alert once the window had gone by, with no success in between.
C1_Witness ==
    /\ page_alerts.since_ok >= 2
    /\ Has(ev["github"], "alert_error")
    /\ Suppressed(prev["github"].res, prev["github"].ev)

\* ------------------------------------------------------------------- C2
\* C2: in the GitHub loop, an iteration whose monitor() and save_state()
\* both return resets the limiter, and a connection error or read timeout
\* goes without an alert only when an alert has been sent since the last
\* such iteration: the first failure after a success alerts whatever the
\* time since the alert before.
C2_ResetOnSuccess ==
    /\ ( /\ res["github"].monitor = "ok"
         /\ res["github"].save_state = "ok" )
       => ( /\ ~github_error_alert_limiter.fired
            /\ can_do_task(github_error_alert_limiter, now)
            /\ Has(ev["github"], "reset")
            /\ page_alerts.since_ok = 0 )
    /\ Suppressed(res["github"], ev["github"]) => page_alerts.since_ok >= 1

\* An alert, a success, and the next failure alerting again inside the
\* window of the first alert.
C2_Witness ==
    /\ Len(page_alerts.times) >= 2
    /\ page_alerts.since_ok = 1
    /\ res["github"].monitor \in ConnFaults
    /\ Has(ev["github"], "alert_error")
    /\ prev["github"].res.monitor = "ok"
    /\ prev["github"].res.save_state = "ok"
    /\ LET n == Len(page_alerts.times)
       IN page_alerts.times[n] - page_alerts.times[n - 1]
            < github_error_interval_seconds

\* ------------------------------------------------------------------- C3
\* C3 as stated: in each of the three loops an iteration that reaches its
\* sleep decision (its poll returned or raised a fault the loop absorbs) has
\* saved the monitor's state.
C3_Original ==
    \A l \in Loops : pc[l] = "sleep" => Has(ev[l], "save_state")

\* C3, amended: in the node and network loops every iteration whose poll
\* returns or raises a fault the loop absorbs calls save_state() exactly
\* once, before the sleep decision; in the GitHub loop save_state() is
\* called exactly when monitor() returns, and never after a fault of it.
C3_PersistPerLoop ==
    /\ \A l \in {"node", "network"} :
         ( /\ res[l].monitor \in {"ok"} \cup Caught(l)
           /\ pc[l] # "save" )
         => ( /\ Count(ev[l], "save_state") = 1
              /\ Precedes(ev[l], "save_state", "sleep")
              /\ Precedes(ev[l], "save_state", "is_syncing_true")
              /\ Precedes(ev[l], "save_state", "is_syncing_false") )
    /\ res["github"].monitor = "ok" =>
         /\ Count(ev["github"], "save_state") = 1
         /\ Precedes(ev["github"], "save_state", "sleep")
    /\ res["github"].monitor \in ExceptionKinds =>
         ~Has(ev["github"], "save_state")

\* The GitHub loop at its sleep after a read timeout of the poll, nothing
\* saved.
C3_Witness ==
    /\ pc["github"] = "sleep"
    /\ res["github"].monitor = "ReadTimeout"
    /\ ~Has(ev["github"], "save_state")

\* ------------------------------------------------------------------- C4
\* C4: in every loop a poll that raises an exception of no named class is
\* logged with logger.exception and re-raised: the iteration makes no other
\* call, and the loop takes no step after it.
C4_UnclassifiedTerminates ==
    /\ [](\A l \in Loops :
            res[l].monitor = "Exception" =>
              /\ pc[l] = "raised"
              /\ ev[l] = <<"monitor", "log_exception", "raise">>)
    /\ [][\A l \in Loops :
            pc[l] = "raised" =>
              /\ pc'[l] = "raised"
              /\ ev'[l] = ev[l]
              /\ res'[l] = res[l]]_vars

C4_Witness ==
    /\ pc["network"] = "raised"
    /\ res["network"].monitor = "Exception"
    /\ prev["network"].res.monitor = "ok"

\* ------------------------------------------------------------------- C5
\* C5 as stated: in every loop a poll raising any fault other than an
\* unclassified one does not end the loop.
C5_Original ==
    \A l \in Loops :
      ( /\ res[l].monitor \in ExceptionKinds \ {"Exception"}
        /\ NoPersistFault(l) )
      => pc[l] # "raised"

\* C5, amended: a loop absorbs the fault kinds its own except clauses name
\* (node: connection error, read timeout, read errors; network: those and
\* no live full node; GitHub: connection error, read timeout, JSON decode
\* error) and goes on; every other kind ends the loop as an unclassified
\* fault does.
C5_AbsorbedPerLoop ==
    \A l \in Loops :
      /\ ( /\ res[l].monitor \in Caught(l)
           /\ NoPersistFault(l) )
         => ( /\ pc[l] \in {"save", "save_node", "sleep", "sleeping", "try"}
              /\ ~Has(ev[l], "raise")
              /\ ~Has(ev[l], "log_exception") )
      /\ res[l].monitor \in ExceptionKinds \ Caught(l)
         => ( /\ pc[l] = "raised"
              /\ ev[l] = <<"monitor", "log_exception", "raise">> )

\* The node loop polling again after an iteration that absorbed a read error.
C5_Witness ==
    /\ res["node"].monitor \in Caught("node")
    /\ prev["node"].res.monitor = "ChunkedEncodingError"
    /\ Has(prev["node"].ev, "sleep")

\* ------------------------------------------------------------------- C6
\* What a whole iteration of the node or network loop calls after a
\* connection error or read timeout of the poll.
MarkDownIterations(l) ==
    IF l = "node"
    THEN {<<"monitor", "set_as_down", "save_state", "node_save_state",
            "sleep">>}
    ELSE {<<"monitor", "set_as_down", "save_state", "is_syncing_false",
            "sleep">>,
          <<"monitor", "set_as_down", "save_state", "is_syncing_true">>}

\* C6: in the node and network loops a poll that raises a connection error
\* or a read timeout is followed by exactly one set_as_down, no alert, then
\* the saving of state and, once that returns, the pacing step, in this
\* order; an iteration without such a fault makes no set_as_down call.
C6_MarkDownOnce ==
    \A l \in {"node", "network"} :
      /\ res[l].monitor \in ConnFaults =>
           /\ Count(ev[l], "set_as_down") = 1
           /\ ~Has(ev[l], "alert_major")
           /\ ~Has(ev[l], "alert_error")
           /\ Len(ev[l]) >= 2
           /\ \E full \in MarkDownIterations(l) : IsPrefix(Body(ev[l]), full)
           /\ Has(ev[l], "raise") => ~NoPersistFault(l)
           /\ pc[l] = "sleep" => Has(ev[l], "save_state")
           /\ IterationDone(l) => ev[l] \in MarkDownIterations(l)
      /\ res[l].monitor \notin ConnFaults => ~Has(ev[l], "set_as_down")

\* The node loop asleep after a poll that met a connection error: marked
\* down, both states saved, no alert.
C6_Witness ==
    /\ pc["node"] = "sleeping"
    /\ sleep_left["node"] = monitor_period
    /\ res["node"].monitor = "ReqConnectionError"
    /\ ev["node"] = <<"monitor", "set_as_down", "save_state",
                      "node_save_state", "sleep">>

\* ------------------------------------------------------------------- C7
\* C7: in the network loop every poll that raises NoLiveFullNodeException
\* sends exactly one major alert, whatever came before and however close in
\* time, and no other poll outcome sends one.
C7_NoLiveAlwaysAlerts ==
    /\ res["network"].monitor = "NoLiveFullNodeException" =>
         /\ Count(ev["network"], "alert_major") = 1
         /\ ev["network"][2] = "alert_major"
    /\ prev["network"].res.monitor = "NoLiveFullNodeException" =>
         Count(prev["network"].ev, "alert_major") = 1
    /\ res["network"].monitor # "NoLiveFullNodeException" =>
         ~Has(ev["network"], "alert_major")

\* Two polls in a row find no live full node within the same second (the
\* sleep between them skipped) and each has sent its alert.
C7_Witness ==
    /\ res["network"].monitor = "NoLiveFullNodeException"
    /\ prev["network"].res.monitor = "NoLiveFullNodeException"
    /\ at["network"] = prev["network"].at
    /\ Count(ev["network"], "alert_major") = 1
    /\ Count(prev["network"].ev, "alert_major") = 1

\* ------------------------------------------------------------------- C8
\* C8: in the GitHub loop a poll that raises JSONDecodeError makes no call
\* to the channel set and leaves the limiter alone: it is logged and the
\* loop goes to its sleep, whatever the state of the limiter.
C8_MalformedNeverAlerts ==
    res["github"].monitor = "JSONDecodeError" =>
      /\ ~Has(ev["github"], "alert_error")
      /\ ~Has(ev["github"], "alert_major")
      /\ ~Has(ev["github"], "did_task")
      /\ IsPrefix(<<"monitor", "log_error">>, ev["github"])
      /\ pc["github"] # "raised"

\* A JSON decode error met when the limiter had fired and its window had
\* gone by, so that a connection error would have alerted.
C8_Witness ==
    /\ res["github"].monitor = "JSONDecodeError"
    /\ github_error_alert_limiter.fired
    /\ at["github"] - github_error_alert_limiter.at
         >= github_error_interval_seconds
    /\ pc["github"] = "sleep"

\* ------------------------------------------------------------------- C9
\* C9: an iteration that runs to its end sleeps monitor_period exactly once,
\* as its last call, and the loop polls again no sooner than monitor_period
\* after; only the network loop skips the sleep, exactly when is_syncing()
\* returns true.
C9_Pacing ==
    /\ \A l \in {"node", "github"} :
         IterationDone(l) =>
           /\ Count(ev[l], "sleep") = 1
           /\ ev[l][Len(ev[l])] = "sleep"
    /\ IterationDone("network") =>
         \/ /\ Has(ev["network"], "is_syncing_false")
            /\ ~Has(ev["network"], "is_syncing_true")
            /\ Count(ev["network"], "sleep") = 1
            /\ ev["network"][Len(ev["network"])] = "sleep"
         \/ /\ Has(ev["network"], "is_syncing_true")
            /\ ~Has(ev["network"], "is_syncing_false")
            /\ ~Has(ev["network"], "sleep")
            /\ pc["network"] = "try"
    /\ \A l \in Loops :
         /\ pc[l] \in {"save", "save_node", "sleep"} => ~Has(ev[l], "sleep")
         /\ pc[l] = "sleeping" =>
              /\ sleep_left[l] <= monitor_period
              /\ sleep_left[l] + (now - at[l]) >= monitor_period
         /\ (pc[l] = "try" /\ Has(ev[l], "sleep")) =>
              now - at[l] >= monitor_period

\* The network loop back at its poll without a sleep, the monitor syncing,
\* in the second in which it polled.
C9_Witness ==
    /\ pc["network"] = "try"
    /\ ev["network"] = <<"monitor", "save_state", "is_syncing_true">>
    /\ now = at["network"]
    /\ prev["network"].ev = <<"monitor", "alert_major", "save_state",
                              "is_syncing_false", "sleep">>

\* ------------------------------------------------------------------ C10
\* C10 as stated: in every loop a poll that raises a read error
\* (IncompleteRead, ChunkedEncodingError, ProtocolError) sends no alert and
\* marks nothing down.
C10_Original ==
    \A l \in Loops :
      res[l].monitor \in TransientFaults =>
        /\ ~Has(ev[l], "alert_error")
        /\ ~Has(ev[l], "alert_major")
        /\ ~Has(ev[l], "set_as_down")

\* C10, amended: a poll that raises a read error marks nothing down and
\* sends no major alert in any loop; the node loop logs it and goes on
\* without an alert; the network loop sends exactly one error alert, logs
\* and goes on; the GitHub loop has no clause for it and re-raises it,
\* without an alert.
C10_ReadErrorsPerLoop ==
    \A l \in Loops :
      res[l].monitor \in TransientFaults =>
        /\ ~Has(ev[l], "set_as_down")
        /\ ~Has(ev[l], "alert_major")
        /\ l = "node" =>
             /\ ~Has(ev[l], "alert_error")
             /\ IsPrefix(<<"monitor", "log_error", "save_state">>, ev[l])
                  \/ ev[l] = <<"monitor", "log_error">>
        /\ l = "network" =>
             /\ Count(ev[l], "alert_error") = 1
             /\ IsPrefix(<<"monitor", "alert_error", "log_error",
                           "save_state">>, ev[l])
                  \/ ev[l] = <<"monitor", "alert_error", "log_error">>
        /\ l = "github" =>
             /\ ~Has(ev[l], "alert_error")
             /\ ev[l] = <<"monitor", "log_exception", "raise">>
             /\ pc[l] = "raised"

\* The network loop at its sleep decision after a chunked-encoding error:
\* one error alert, no mark-down.
C10_Witness ==
    /\ pc["network"] = "sleep"
    /\ res["network"].monitor = "ChunkedEncodingError"
    /\ ev["network"] = <<"monitor", "alert_error", "log_error", "save_state">>

\* ------------------------------------------------------------------ C11
\* What a whole iteration of the network loop calls after a read error of
\* the poll.
ReadErrorIterations ==
    {<<"monitor", "alert_error", "log_error", "save_state",
       "is_syncing_false", "sleep">>,
     <<"monitor", "alert_error", "log_error", "save_state",
       "is_syncing_true">>}

\* C11: in the network loop a poll that raises a read error (IncompleteRead,
\* ChunkedEncodingError, ProtocolError) sends exactly one error alert as
\* its first reaction, marks nothing down, then saves the state and, that
\* call returning, goes on to its pacing step.
C11_NetworkReadErrorAlert ==
    res["network"].monitor \in TransientFaults =>
      /\ Count(ev["network"], "alert_error") = 1
      /\ ev["network"][2] = "alert_error"
      /\ ~Has(ev["network"], "set_as_down")
      /\ pc["network"] # "save" =>
           /\ Count(ev["network"], "save_state") = 1
           /\ Precedes(ev["network"], "alert_error", "save_state")
      /\ NoPersistFault("network") => pc["network"] # "raised"
      /\ IterationDone("network") => ev["network"] \in ReadErrorIterations

\* The network loop has polled again after an iteration that met a protocol
\* error, alerted, saved and slept.
C11_Witness ==
    /\ res["network"].monitor = "ok"
    /\ prev["network"].res.monitor = "ProtocolError"
    /\ prev["network"].ev = <<"monitor", "alert_error", "log_error",
                              "save_state", "is_syncing_false", "sleep">>

\* ------------------------------------------------------------------ C13
\* The time of the latest did_task() of the limiter (it is called with
\* every page alert, and only then).
LastFiredAt == page_alerts.times[Len(page_alerts.times)]

\* C13: the limiter of the GitHub loop can fire before any did_task(),
\* cannot in the second of a did_task(), can again once more than
\* github_error_interval_seconds have gone by since the latest did_task(),
\* and can right after a reset() whatever time has gone by.
C13_LimiterContract ==
    /\ page_alerts.times = <<>> =>
         can_do_task(github_error_alert_limiter, now)
    /\ ( /\ Has(ev["github"], "did_task")
         /\ now = at["github"] )
       => ~can_do_task(github_error_alert_limiter, now)
    /\ ( /\ page_alerts.times # <<>>
         /\ now - LastFiredAt > github_error_interval_seconds )
       => can_do_task(github_error_alert_limiter, now)
    /\ ( /\ Has(ev["github"], "reset")
         /\ pc["github"] \in {"sleep", "sleeping", "try"} )
       => can_do_task(github_error_alert_limiter, now)

\* The limiter right after a reset, inside the window of its latest firing.
C13_Witness ==
    /\ Has(ev["github"], "reset")
    /\ page_alerts.times # <<>>
    /\ now - LastFiredAt < github_error_interval_seconds
    /\ can_do_task(github_error_alert_limiter, now)

\* ------------------------------------------------------------------ C15
\* C15: in the GitHub loop a poll that raises a connection error or a read
\* timeout is logged with exactly one logger.error, alert or no alert; and
\* where the GitHub loop or the network loop sends an error alert, the
\* alert comes before the log line.
C15_LogAlwaysAlertFirst ==
    /\ res["github"].monitor \in ConnFaults =>
         Count(ev["github"], "log_error") = 1
    /\ \A l \in {"github", "network"} :
         Has(ev[l], "alert_error") =>
           /\ Count(ev[l], "log_error") = 1
           /\ Precedes(ev[l], "alert_error", "log_error")

\* A read timeout of the poll inside the window: no alert, one log line.
C15_Witness ==
    /\ res["github"].monitor = "ReadTimeout"
    /\ Suppressed(res["github"], ev["github"])
    /\ ev["github"] = <<"monitor", "log_error">>
    /\ github_error_alert_limiter.fired

\* ------------------------------------------------------------------ C16
\* C16: an iteration of the node loop that runs to its end calls
\* save_state() of the monitor once and then save_state() of the node once,
\* after the reaction to the poll (set_as_down or the log line) and before
\* the sleep.
C16_NodePersistOrder ==
    /\ Count(ev["node"], "save_state") <= 1
    /\ Count(ev["node"], "node_save_state") <= 1
    /\ Has(ev["node"], "node_save_state") =>
         /\ Precedes(ev["node"], "save_state", "node_save_state")
         /\ ~Precedes(ev["node"], "node_save_state", "save_state")
    /\ Has(ev["node"], "save_state") =>
         /\ Has(ev["node"], "set_as_down") =>
              Precedes(ev["node"], "set_as_down", "save_state")
         /\ Has(ev["node"], "log_error") =>
              Precedes(ev["node"], "log_error", "save_state")
    /\ \/ pc["node"] = "sleep"
       \/ IterationDone("node")
       => /\ Count(ev["node"], "save_state") = 1
          /\ Count(ev["node"], "node_save_state") = 1
          /\ Precedes(ev["node"], "node_save_state", "sleep")

\* The node loop asleep after a poll whose read error it logged: the log
\* line, the monitor's state, the node's state, the sleep.
C16_Witness ==
    /\ pc["node"] = "sleeping"
    /\ res["node"].monitor = "IncompleteRead"
    /\ ev["node"] = <<"monitor", "log_error", "save_state",
                      "node_save_state", "sleep">>

\* ------------------------------------------------------------------ C17
\* C17: in the GitHub loop an iteration whose poll raises JSONDecodeError
\* leaves the limiter as it was and saves no state; so a connection error
\* that follows such an iteration alerts only if no alert is pending since
\* the last fully successful iteration or the window of the pending one has
\* gone by.
C17_MalformedLeavesLimiter ==
    /\ [][( /\ pc["github"] = "try"
            /\ pc'["github"] # "try"
            /\ res'["github"].monitor = "JSONDecodeError" )
          => ( /\ github_error_alert_limiter' = github_error_alert_limiter
               /\ page_alerts' = page_alerts
               /\ ~Has(ev'["github"], "save_state")
               /\ ~Has(ev'["github"], "reset") )]_vars
    /\ []( ( /\ prev["github"].res.monitor = "JSONDecodeError"
             /\ res["github"].monitor \in ConnFaults
             /\ Has(ev["github"], "alert_error") )
           => \/ page_alerts.since_ok = 1
              \/ LET n == Len(page_alerts.times)
                 IN page_alerts.times[n] - page_alerts.times[n - 1]
                      >= github_error_interval_seconds )

\* A connection error that sends no alert, right after an iteration whose
\* poll raised JSONDecodeError, inside the window of an earlier alert.
C17_Witness ==
    /\ prev["github"].res.monitor = "JSONDecodeError"
    /\ res["github"].monitor = "ReqConnectionError"
    /\ ev["github"] = <<"monitor", "log_error">>
    /\ page_alerts.since_ok = 1
    /\ at["github"] - LastFiredAt < github_error_interval_seconds

\* ------------------------------------------------------------------ C18
\* The iteration sent an alert or marked the node down.
Reacted(e) ==
    \/ Has(e, "alert_major")
    \/ Has(e, "alert_error")
    \/ Has(e, "set_as_down")

\* C18 as stated: every iteration of the network loop that alerts or marks
\* down ends with a sleep.
C18_Original ==
    ( /\ IterationDone("network")
      /\ Reacted(ev["network"]) )
    => Has(ev["network"], "sleep")

\* C18, amended: an iteration of the network loop that alerts or marks down
\* sleeps monitor_period before the next poll exactly when is_syncing()
\* returns false; when it returns true the next poll follows at once, and
\* two alerts can follow each other with no sleep between them.
C18_SleepUnlessSyncing ==
    /\ ( /\ IterationDone("network")
         /\ Reacted(ev["network"]) )
       => /\ Has(ev["network"], "sleep") <=> Has(ev["network"], "is_syncing_false")
          /\ ~Has(ev["network"], "sleep") <=> Has(ev["network"], "is_syncing_true")
          /\ (pc["network"] = "try" /\ Has(ev["network"], "sleep"))
               => now - at["network"] >= monitor_period
    /\ ( /\ Reacted(prev["network"].ev)
         /\ res["network"].monitor # "none"
         /\ at["network"] - prev["network"].at < monitor_period )
       => /\ Has(prev["network"].ev, "is_syncing_true")
          /\ ~Has(prev["network"].ev, "sleep")

\* Two alerts of the network loop with no sleep between them: no live full
\* node and is_syncing() true, then a read error in the same second.
C18_Witness ==
    /\ prev["network"].ev = <<"monitor", "alert_major", "save_state",
                              "is_syncing_true">>
    /\ Has(ev["network"], "alert_error")
    /\ at["network"] = prev["network"].at

\* ------------------------------------------------------------------ C19
\* s ends with the call x raising.
EndsRaising(s, x) ==
    /\ Len(s) >= 2
    /\ s[Len(s) - 1] = x
    /\ s[Len(s)] = "raise"

\* C19: in the GitHub loop a connection error or read timeout raised by
\* save_state() is handled by the clause of the poll's: logged, alerted
\* when the limiter permits, no reset, the loop goes to its sleep; in the
\* node and network loops whatever a save_state() call raises leaves the
\* loop at once, unlogged.
C19_PersistFaultPerLoop ==
    /\ ( /\ res["github"].monitor = "ok"
         /\ res["github"].save_state \in ConnFaults )
       => /\ pc["github"] # "raised"
          /\ IsPrefix(<<"monitor", "save_state">>, ev["github"])
          /\ ~Has(ev["github"], "reset")
          /\ ~Has(ev["github"], "raise")
          /\ Count(ev["github"], "log_error") = 1
          /\ Has(ev["github"], "alert_error") <=> Has(ev["github"], "did_task")
          /\ ~Has(ev["github"], "alert_error") =>
               /\ page_alerts.since_ok >= 1
               /\ github_error_alert_limiter.fired
               /\ at["github"] - LastFiredAt < github_error_interval_seconds
    /\ \A l \in {"node", "network"} :
         /\ res[l].save_state \in ExceptionKinds =>
              /\ pc[l] = "raised"
              /\ EndsRaising(ev[l], "save_state")
              /\ ~Has(ev[l], "log_exception")
         /\ res[l].node_save_state \in ExceptionKinds =>
              /\ pc[l] = "raised"
              /\ EndsRaising(ev[l], "node_save_state")
              /\ ~Has(ev[l], "log_exception")

\* save_state() of the GitHub monitor raises a read timeout inside the
\* window of an alert: logged, no alert, no reset, on to the sleep.
C19_Witness ==
    /\ pc["github"] = "sleep"
    /\ res["github"].monitor = "ok"
    /\ res["github"].save_state = "ReadTimeout"
    /\ ev["github"] = <<"monitor", "save_state", "log_error">>
    /\ github_error_alert_limiter.fired

\* ------------------------------------------------------------------ C12
\* The poll of loop l.
TryOf(l) ==
    IF l = "node" THEN NodeTry
    ELSE IF l = "network" THEN NetworkTry
    ELSE GithubTry

\* What the try statement of loop l lets through from save_state(): in the
\* GitHub loop, where the call is inside the try, nothing the clauses name.
PersistEscapes(l) ==
    IF l = "github"
    THEN res[l].save_state \in ExceptionKinds \ Caught(l)
    ELSE \/ res[l].save_state \in ExceptionKinds
         \/ res[l].node_save_state \in ExceptionKinds

C14_LoopsIndependent ==
    /\ [](\A l \in Loops : \A m \in Loops \ {l} :
            (pc[l] = "sleeping" /\ sleep_left[l] > 0) =>
              /\ pc[m] \in {"try", "save", "save_node", "sleep"} =>
                   ENABLED StepOf(m)
              /\ (pc[m] = "sleeping" /\ sleep_left[m] = 0) =>
                   ENABLED Wake(m))
    /\ [][\A l \in Loops :
            (pc'[l] # pc[l] \/ ev'[l] # ev[l] \/ res'[l] # res[l]) =>
              \A m \in Loops \ {l} :
                /\ pc'[m] = pc[m]
                /\ ev'[m] = ev[m]
                /\ res'[m] = res[m]
                /\ sleep_left'[m] = sleep_left[m]]_vars
    /\ [][github_error_alert_limiter' # github_error_alert_limiter =>
            /\ pc["github"] = "try"
            /\ pc'["github"] # "try"
            /\ \A m \in Loops \ {"github"} : pc'[m] = pc[m]]_vars

\* The node loop inside its sleep while the GitHub loop, its limiter fired,
\* stands before its next poll.
C14_Witness ==
    /\ pc["node"] = "sleeping"
    /\ sleep_left["node"] > 0
    /\ pc["github"] = "try"
    /\ github_error_alert_limiter.fired

====
